---------------------------- MODULE Spec2Model ----------------------------
(***************************************************************************)
(* A model of strainStructure/mash.py (PopPUNK): the batch partitioner     *)
(* (readAssemblyList, splitList), the distance query pipeline              *)
(* (queryDatabase, runQuery, runComparison, printQueryOutput) and the      *)
(* cluster assignment pass (assignQueriesToClusters).                      *)
(***************************************************************************)
EXTENDS Integers, Sequences, FiniteSets, TLC

(***************************************************************************)
(* Bounds of the model.                                                    *)
(***************************************************************************)
\* longest assembly list and largest worker count of the partitioner runs
MaxLen == 8
MaxThreads == 5
\* most queries of one cluster assignment, and most links of one query
MaxQueries == 3
MaxLinks == 2
\* the distance query: most assemblies, workers and k-mer lengths
MaxAssemblies == 3
MaxWorkers == 3
MaxKmers == 2

(***************************************************************************)
(* Python helpers.                                                         *)
(***************************************************************************)
Min(x, y) == IF x <= y THEN x ELSE y
Max(x, y) == IF x >= y THEN x ELSE y

\* the Python slice a[i:j] for 0 <= i: both ends are clamped to len(a)
Slice(a, i, j) ==
    LET lo == Min(i, Len(a))
        hi == Min(j, Len(a))
    IN  IF hi <= lo THEN << >> ELSE SubSeq(a, lo + 1, hi)

\* int(x / y) for integers x >= 0, y > 0: Python's true division, truncated
IntDiv(x, y) == x \div y

RECURSIVE Concat(_)
Concat(ss) == IF ss = << >> THEN << >> ELSE Head(ss) \o Concat(Tail(ss))

RECURSIVE SumSeq(_)
SumSeq(s) == IF s = << >> THEN 0 ELSE Head(s) + SumSeq(Tail(s))

Range(s) == { s[i] : i \in 1..Len(s) }

VARIABLES
    \* ---- readAssemblyList / splitList ----
    pc,               \* position of the run
    fn,               \* the lines of the assembly list file
    threads,          \* worker count
    assemblyList,     \* readAssemblyList: the parsed list
    assemblyIndices,  \* readAssemblyList: assembly -> zero-based index
    assemblyBatches,  \* readAssemblyList: the batches, in batch order
    st, zr, nr, nc,   \* splitList: its locals
    inc,              \* splitList: the increment of the batch size
    b,                \* splitList: the sublists built so far
    fi,               \* splitList: the counter of "for i in range(nr-1)"
    \* ---- assignQueriesToClusters ----
    aPc,                \* position of the pass
    links,              \* argument: query -> links, in the dict's order
    G,                  \* argument: the query graph (nodes in order, edges)
    clusterFile,        \* the rows of <databaseName>_clusters.csv
    existingCluster,    \* taxon -> integer cluster id
    maxCluster,         \* the running maximum cluster id
    queryCluster,       \* query -> rank of its component
    queriesInCluster,   \* rank -> the component's members, as a list
    translateClusters,  \* rank -> the cluster id its first query took
    additionalClusters, \* query -> new cluster (returned)
    existingHits,       \* query -> the keys of its hit dict, in order (returned)
    oFile,              \* the output file: header written, rows
    qi,                 \* position of "for query in links"
    run,                \* history: 1 in the first run, 2 in the repeated one
    firstRun,           \* history: what the first run produced
    \* ---- getSketchSize, constructDatabase, queryDatabase ----
    call,         \* the function the caller invoked
    qPc,          \* position of the call
    klist,        \* argument: the k-mer lengths
    self,         \* argument: self-comparison mode
    lineOrder,    \* the order in which mash dist lists its pairs
    dbExists,     \* per k: whether the sketch database file exists
    toolFailed,   \* history: a tool invocation has exited non-zero
    sketch,       \* getSketchSize: its locals
    oldSketch,
    sketchdb,     \* getSketchSize: k -> sketch size (returned)
    kpos,         \* getSketchSize: position of "for k in klist"
    raw,          \* queryDatabase: runQuery's result per k
    queryList,    \* queryDatabase: its locals
    refList,
    refIndices,
    querySeqs,
    refSeqs,
    dists,        \* queryDatabase: runComparison's result per batch
    ret,          \* queryDatabase: the returned tuple
    searchOut     \* printQueryOutput: the rows of <outPrefix>.search.out

splitVars == << pc, fn, threads, assemblyList, assemblyIndices,
                assemblyBatches, st, zr, nr, nc, inc, b, fi >>

passVars == << aPc, existingCluster, maxCluster, queryCluster,
               queriesInCluster, translateClusters, additionalClusters,
               existingHits, oFile, qi >>

assignVars == << links, G, clusterFile, passVars, run, firstRun >>

queryVars == << call, qPc, klist, self, lineOrder, dbExists, toolFailed,
               sketch, oldSketch, sketchdb, kpos, raw, queryList, refList,
               refIndices, querySeqs, refSeqs, dists, ret, searchOut >>

\* what the actions of each part leave alone
notSplitVars == << assignVars, queryVars >>
notAssignVars == << splitVars, queryVars >>

vars == << splitVars, assignVars, queryVars >>

(***************************************************************************)
(* readAssemblyList and splitList.                                         *)
(***************************************************************************)
\* the assembly list file of n lines, one assembly per line
AssemblyNames == << "s1", "s2", "s3", "s4", "s5", "s6", "s7", "s8", "s9", "s10" >>
AssemblyFile(n) == SubSeq(AssemblyNames, 1, n)

InitSplit(maxLen, maxThreads) ==
    /\ pc = "read"
    /\ fn \in { AssemblyFile(n) : n \in 0..maxLen }
    /\ threads \in 1..maxThreads
    /\ assemblyList = << >>
    /\ assemblyIndices = << >>
    /\ assemblyBatches = << >>
    /\ st = 0 /\ zr = 0 /\ nr = 0 /\ nc = 0 /\ inc = 0 /\ fi = 0
    /\ b = << >>

\* "while (zr/nr >= nc and nr>1)": zr/nr is a true division of integers
WhileCond(z, r, c) == z >= c * r /\ r > 1

\* the end of the last slice, a[st:max(st+nc,len(a))]
LastSliceEndDropsRest(s, c, len) == s + c
LastSliceEnd(s, c, len) == Max(s + c, len)

\* readAssemblyList up to the call of splitList, and splitList's first lines
ReadAssemblyList ==
    /\ pc = "read"
    /\ assemblyList' = fn
    /\ assemblyIndices' = [ x \in Range(fn) |->
                              (CHOOSE i \in 1..Len(fn) :
                                  /\ fn[i] = x
                                  /\ \A j \in 1..Len(fn) : fn[j] = x => j <= i) - 1 ]
    /\ IF threads = 1
       THEN /\ assemblyBatches' = << fn >>
            /\ pc' = "batched"
            /\ UNCHANGED << st, zr, nr, nc, inc, b, fi >>
       ELSE /\ inc' = IntDiv(Len(fn), threads)
            /\ zr' = Len(fn)
            /\ st' = 0
            /\ nr' = threads
            /\ nc' = 1
            /\ b' = << >>
            /\ fi' = 0
            /\ pc' = "while"
            /\ UNCHANGED assemblyBatches
    /\ UNCHANGED << fn, threads >>
    /\ UNCHANGED notSplitVars

\* one test of the while loop: an iteration, or the exit to "nc = int(zr/nr)"
SplitWhile ==
    /\ pc = "while"
    /\ IF WhileCond(zr, nr, nc)
       THEN /\ b' = Append(b, Slice(assemblyList, st, st + nc))
            /\ st' = st + nc
            /\ zr' = zr - nc
            /\ nr' = nr - 1
            /\ nc' = nc + inc
            /\ UNCHANGED << pc, fi >>
       ELSE /\ nc' = IntDiv(zr, nr)
            /\ fi' = 0
            /\ pc' = "for"
            /\ UNCHANGED << b, st, zr, nr >>
    /\ UNCHANGED << fn, threads, assemblyList, assemblyIndices,
                    assemblyBatches, inc >>
    /\ UNCHANGED notSplitVars

\* one iteration of "for i in range(nr-1)"
SplitFor ==
    /\ pc = "for"
    /\ fi < nr - 1
    /\ b' = Append(b, Slice(assemblyList, st, st + nc))
    /\ st' = st + nc
    /\ fi' = fi + 1
    /\ UNCHANGED << pc, fn, threads, assemblyList, assemblyIndices,
                    assemblyBatches, zr, nr, nc, inc >>
    /\ UNCHANGED notSplitVars

\* the last sublist, the return, and readAssemblyList's enumeration of it
SplitLast ==
    /\ pc = "for"
    /\ fi >= nr - 1
    /\ b' = Append(b, Slice(assemblyList, st,
                            LastSliceEnd(st, nc, Len(assemblyList))))
    /\ assemblyBatches' = b'
    /\ pc' = "batched"
    /\ UNCHANGED << fn, threads, assemblyList, assemblyIndices,
                    st, zr, nr, nc, inc, fi >>
    /\ UNCHANGED notSplitVars

SplitNext == ReadAssemblyList \/ SplitWhile \/ SplitFor \/ SplitLast

(***************************************************************************)
(* assignQueriesToClusters.                                                *)
(***************************************************************************)
QueryNames == << "Q1", "Q2", "Q3", "Q4", "Q5" >>
Refs == { "A", "B", "C" }

\* the cluster tables of a database: a line "A,2.1" is the row with taxon A
\* and the cluster value split at its dots, << 2, 1 >>
HeaderRow == [ taxon |-> "Taxon", cluster |-> << >> ]
ClusterFiles ==
    { << HeaderRow,
         [ taxon |-> "A", cluster |-> << 1 >> ],
         [ taxon |-> "B", cluster |-> << 1 >> ],
         [ taxon |-> "C", cluster |-> << 2 >> ] >>,
      << HeaderRow,
         [ taxon |-> "A", cluster |-> << 2, 1 >> ],
         [ taxon |-> "C", cluster |-> << 3 >> ] >> }

\* the sequences without repetition over S, of length at most n
RECURSIVE SeqsNoRep(_, _)
SeqsNoRep(S, n) ==
    IF n = 0 THEN { << >> }
    ELSE LET shorter == SeqsNoRep(S, n - 1)
             longer == { Append(s, x) : s \in shorter, x \in S }
         IN  shorter \cup
                 { s \in longer : \A i, j \in 1..Len(s) : s[i] = s[j] => i = j }

\* the orders in which a set can be iterated
Perms(S) ==
    { s \in [ 1..Cardinality(S) -> S ] :
        \A i, j \in 1..Cardinality(S) : s[i] = s[j] => i = j }

\* "int(clusterVals[1].split('.')[0])"
IntCluster(clusterVal) == Head(clusterVal)

\* lines 67-79: the existing clusters and the current maximum cluster number
RECURSIVE ParseClusters(_, _)
ParseClusters(rows, acc) ==
    IF rows = << >> THEN acc
    ELSE LET row == Head(rows)
         IN  IF row.taxon # "Taxon"
             THEN ParseClusters(Tail(rows),
                      [ existingCluster |->
                            [ t \in DOMAIN acc.existingCluster \cup { row.taxon } |->
                                IF t = row.taxon THEN IntCluster(row.cluster)
                                ELSE acc.existingCluster[t] ],
                        maxCluster |->
                            IF IntCluster(row.cluster) > acc.maxCluster
                            THEN IntCluster(row.cluster) ELSE acc.maxCluster ])
             ELSE ParseClusters(Tail(rows), acc)

\* the nodes a node reaches in the graph g
RECURSIVE ReachFrom(_, _)
ReachFrom(g, seen) ==
    LET more == { v \in Range(g.nodes) :
                    \E u \in seen : { u, v } \in g.edges }
    IN  IF more \subseteq seen THEN seen ELSE ReachFrom(g, seen \cup more)

\* nx.connected_components(G): one set per component, in the order in which
\* the graph's nodes first meet them
RECURSIVE ConnectedComponents(_, _, _)
ConnectedComponents(g, i, seen) ==
    IF i > Len(g.nodes) THEN << >>
    ELSE IF g.nodes[i] \in seen THEN ConnectedComponents(g, i + 1, seen)
    ELSE LET c == ReachFrom(g, { g.nodes[i] })
         IN  << c >> \o ConnectedComponents(g, i + 1, seen \cup c)

\* sorted(..., key=len, reverse=True): stable, larger components first
RECURSIVE SortedBySize(_, _)
SortedBySize(comps, size) ==
    IF size = 0 THEN << >>
    ELSE SelectSeq(comps, LAMBDA c : Cardinality(c) = size)
             \o SortedBySize(comps, size - 1)

Clusters(g) == SortedBySize(ConnectedComponents(g, 1, {}), Len(g.nodes))

\* the lists the loop of lines 86-90 can build: each component's members in
\* an order in which the set may be iterated
RECURSIVE MemberLists(_)
MemberLists(comps) ==
    IF comps = << >> THEN { << >> }
    ELSE { << m >> \o rest : m \in Perms(Head(comps)),
                             rest \in MemberLists(Tail(comps)) }

\* lines 105-107: the keys of existingHits[query], in the order of insertion
RECURSIVE HitKeysNoDedup(_, _, _)
HitKeysNoDedup(ls, ec, keys) ==
    IF ls = << >> THEN keys
    ELSE HitKeysNoDedup(Tail(ls), ec,
             IF Head(ls) \in DOMAIN ec
             THEN Append(keys, ec[Head(ls)]) ELSE keys)

RECURSIVE HitKeys(_, _, _)
HitKeys(ls, ec, keys) ==
    IF ls = << >> THEN keys
    ELSE HitKeys(Tail(ls), ec,
             IF Head(ls) \in DOMAIN ec /\ ec[Head(ls)] \notin Range(keys)
             THEN Append(keys, ec[Head(ls)]) ELSE keys)

\* lines 121-126: the hits of the similar queries, joined by ';'
RECURSIVE JoinSimilarHits(_, _)
JoinSimilarHits(members, hits) ==
    IF members = << >> THEN << >>
    ELSE hits[Head(members)] \o JoinSimilarHits(Tail(members), hits)

\* lines 140-141: "maxCluster += 1"
KeepMaxCluster(m) == m
NextMaxCluster(m) == m + 1

EmptyFn == << >>

PassStart ==
    /\ aPc = "start"
    /\ existingCluster = EmptyFn
    /\ maxCluster = 0
    /\ queryCluster = EmptyFn
    /\ queriesInCluster = << >>
    /\ translateClusters = EmptyFn
    /\ additionalClusters = EmptyFn
    /\ existingHits = EmptyFn
    /\ oFile = [ header |-> FALSE, rows |-> << >> ]
    /\ qi = 1

Graphs(qs) ==
    { [ nodes |-> ns, edges |-> es ] :
        ns \in { SelectSeq(qs, LAMBDA q : q \in V) : V \in SUBSET Range(qs) },
        es \in SUBSET { { u, v } : u, v \in Range(qs) } } 

InitAssign ==
    /\ \E n \in 1..MaxQueries :
         LET qs == SubSeq(QueryNames, 1, n)
         IN  /\ links \in { [ i \in 1..n |-> [ query |-> qs[i], links |-> l[i] ] ] :
                              l \in [ 1..n -> SeqsNoRep(Refs, MaxLinks) ] }
             /\ G \in { g \in Graphs(qs) :
                          \A e \in g.edges : Cardinality(e) = 2
                                             /\ e \subseteq Range(g.nodes) }
    /\ clusterFile \in ClusterFiles
    /\ run = 1
    /\ firstRun = [ pc |-> "none" ]
    /\ PassStart

\* lines 60-92: open the output, read the cluster table, rank the components
AssignStart ==
    /\ aPc = "start"
    /\ LET parsed == ParseClusters(clusterFile,
                         [ existingCluster |-> EmptyFn, maxCluster |-> 0 ])
           clusters == Clusters(G)
       IN  /\ existingCluster' = parsed.existingCluster
           /\ \E members \in MemberLists(clusters) :
                queriesInCluster' = [ id \in 0..(Len(clusters) - 1) |-> members[id + 1] ]
           /\ queryCluster' = [ q \in Range(G.nodes) |->
                                  (CHOOSE i \in 1..Len(clusters) : q \in clusters[i]) - 1 ]
           /\ maxCluster' = Max(parsed.maxCluster, Len(clusters) - 1)
    /\ oFile' = [ header |-> TRUE, rows |-> << >> ]
    /\ aPc' = "loop"
    /\ UNCHANGED << translateClusters, additionalClusters, existingHits, qi,
                    links, G, clusterFile, run, firstRun >>
    /\ UNCHANGED notAssignVars

\* lines 99-155: one iteration of "for query in links"
ProcessQuery ==
    /\ aPc = "loop"
    /\ qi <= Len(links)
    /\ LET query == links[qi].query
           hits == HitKeys(links[qi].links, existingCluster, << >>)
           hitsNow == (query :> hits) @@ existingHits
           inGraph == query \in DOMAIN queryCluster
           members == IF inGraph THEN queriesInCluster[queryCluster[query]]
                      ELSE << >>
           keyError == \E i \in 1..Len(members) : members[i] \notin DOMAIN hitsNow
           inherited == JoinSimilarHits(members, hitsNow)
           row(c) == [ query |-> query, cluster |-> c, complete |-> TRUE ]
       IN  /\ existingHits' = hitsNow
           /\ IF hits # << >>
              THEN \* lines 148-155
                   /\ oFile' = [ oFile EXCEPT !.rows = Append(@, row(hits)) ]
                   /\ qi' = qi + 1
                   /\ UNCHANGED << aPc, maxCluster, translateClusters,
                                   additionalClusters >>
              ELSE IF keyError
              THEN \* line 122: existingHits[similarQuery] raises KeyError
                   /\ oFile' = [ oFile EXCEPT !.rows =
                                   Append(@, [ query |-> query, cluster |-> << >>,
                                               complete |-> FALSE ]) ]
                   /\ aPc' = "crashed"
                   /\ UNCHANGED << maxCluster, translateClusters,
                                   additionalClusters, qi >>
              ELSE IF inherited # << >>
              THEN \* lines 121-126, 143
                   /\ oFile' = [ oFile EXCEPT !.rows = Append(@, row(inherited)) ]
                   /\ qi' = qi + 1
                   /\ UNCHANGED << aPc, maxCluster, translateClusters,
                                   additionalClusters >>
              ELSE IF inGraph
              THEN \* lines 130-138, 143
                   LET rank == queryCluster[query]
                       newCluster == IF rank \in DOMAIN translateClusters
                                     THEN translateClusters[rank] ELSE rank
                   IN  /\ translateClusters' = (rank :> newCluster) @@ translateClusters
                       /\ additionalClusters' = (query :> newCluster) @@ additionalClusters
                       /\ oFile' = [ oFile EXCEPT !.rows =
                                       Append(@, row(<< newCluster >>)) ]
                       /\ qi' = qi + 1
                       /\ UNCHANGED << aPc, maxCluster >>
              ELSE \* lines 139-143
                   /\ maxCluster' = NextMaxCluster(maxCluster)
                   /\ oFile' = [ oFile EXCEPT !.rows =
                                   Append(@, row(<< maxCluster' >>)) ]
                   /\ qi' = qi + 1
                   /\ UNCHANGED << aPc, translateClusters, additionalClusters >>
    /\ UNCHANGED << existingCluster, queryCluster, queriesInCluster,
                    links, G, clusterFile, run, firstRun >>
    /\ UNCHANGED notAssignVars

\* line 160: the return
AssignReturn ==
    /\ aPc = "loop"
    /\ qi > Len(links)
    /\ aPc' = "done"
    /\ UNCHANGED << existingCluster, maxCluster, queryCluster, queriesInCluster,
                    translateClusters, additionalClusters, existingHits, oFile,
                    qi, links, G, clusterFile, run, firstRun >>
    /\ UNCHANGED notAssignVars

\* the same call once more, on the same arguments and the same files
RunAgain ==
    /\ run = 1
    /\ aPc \in { "done", "crashed" }
    /\ firstRun' = [ pc |-> aPc, oFile |-> oFile,
                     additionalClusters |-> additionalClusters,
                     existingHits |-> existingHits ]
    /\ run' = 2
    /\ aPc' = "start"
    /\ existingCluster' = EmptyFn
    /\ maxCluster' = 0
    /\ queryCluster' = EmptyFn
    /\ queriesInCluster' = << >>
    /\ translateClusters' = EmptyFn
    /\ additionalClusters' = EmptyFn
    /\ existingHits' = EmptyFn
    /\ oFile' = [ header |-> FALSE, rows |-> << >> ]
    /\ qi' = 1
    /\ UNCHANGED << links, G, clusterFile >>
    /\ UNCHANGED notAssignVars

AssignNext == AssignStart \/ ProcessQuery \/ AssignReturn \/ RunAgain

(***************************************************************************)
(* An ordered dict (a Python dict, a defaultdict): its entries in the      *)
(* order of insertion.                                                     *)
(***************************************************************************)
Keys(d) == [ i \in 1..Len(d) |-> d[i].k ]
Has(d, key) == \E i \in 1..Len(d) : d[i].k = key
Get(d, key) == d[CHOOSE i \in 1..Len(d) : d[i].k = key].v
Put(d, key, val) ==
    IF Has(d, key)
    THEN [ i \in 1..Len(d) |-> IF d[i].k = key THEN [ k |-> key, v |-> val ] ELSE d[i] ]
    ELSE Append(d, [ k |-> key, v |-> val ])

\* a value of raw_k[x][y]: a Jaccard fraction (a float), or the empty
\* defaultdict that reading a missing entry of a nested_dict() inserts
Jaccard == "float"
EmptyDict == "defaultdict"

\* reading raw_k[x][y]: collections.defaultdict inserts what is missing
Touch(rawk, x, y) ==
    LET withX == IF Has(rawk, x) THEN rawk ELSE Put(rawk, x, << >>)
        inner == Get(withX, x)
    IN  IF Has(inner, y) THEN withX
        ELSE Put(withX, x, Put(inner, y, EmptyDict))

\* raw_k[x][y] = val
Store(rawk, x, y, val) ==
    LET withX == IF Has(rawk, x) THEN rawk ELSE Put(rawk, x, << >>)
    IN  Put(withX, x, Put(Get(withX, x), y, val))

\* lines 272-276: one line of mash dist's output; mashVals[0] is the
\* reference, mashVals[1] the query; the test "raw_k[..][..] is not None"
\* reads the entry, which is never None
RunQueryLine(rawk, line) ==
    IF line.fields > 2 /\ line.m0 # line.m1
    THEN Store(Touch(rawk, line.m0, line.m1), line.m1, line.m0, Jaccard)
    ELSE rawk

RECURSIVE RunQueryLines(_, _)
RunQueryLines(rawk, lines) ==
    IF lines = << >> THEN rawk
    ELSE RunQueryLines(RunQueryLine(rawk, Head(lines)), Tail(lines))

\* the sketch database a non-self query is compared with
DbNames == << "d1", "d2" >>

\* the lines of a complete "mash dist": every (reference, query) pair, with
\* five tab-separated fields each
DistLines(refs, queries, order) ==
    LET nR == Len(refs)
        nQ == Len(queries)
    IN  [ n \in 1..(nR * nQ) |->
            IF order = "byQuery"
            THEN [ m0 |-> refs[((n - 1) % nR) + 1],
                   m1 |-> queries[((n - 1) \div nR) + 1], fields |-> 5 ]
            ELSE [ m0 |-> refs[((n - 1) \div nQ) + 1],
                   m1 |-> queries[((n - 1) % nQ) + 1], fields |-> 5 ] ]

\* lines 262-265: the references and the queries of the mash dist command
DistRefs == IF self THEN assemblyList ELSE DbNames
DistQueries == assemblyList

\* lines 404-408: refList is the key list of the first entry of raw[0] that
\* has keys
RECURSIVE FirstRefList(_, _)
FirstRefList(raw0, i) ==
    IF i > Len(raw0) THEN << >>
    ELSE IF Len(raw0[i].v) > 0 THEN Keys(raw0[i].v)
    ELSE FirstRefList(raw0, i + 1)

\* a row of a distance matrix: the two distances fitted to
\* rawMatches[.][query][ref], or the zeros of np.zeros
Fitted(query, ref) == [ query |-> query, ref |-> ref ]
ZeroRow == [ query |-> "", ref |-> "" ]

\* line 357: rawMatches[i][query][ref] is a float for every k (np.log of the
\* defaultdict that a missing entry yields raises TypeError)
AllFloats(rawMatches, query, ref) ==
    \A i \in 1..Len(rawMatches) :
        /\ Has(rawMatches[i], query)
        /\ Has(Get(rawMatches[i], query), ref)
        /\ Get(Get(rawMatches[i], query), ref) = Jaccard

\* the list "raw" that pool.map returns
RawMatches == [ i \in 1..Len(raw) |-> raw[i].raw_k ]

\* lines 339-343: the number of rows of outDists
NumberDists(inputList, isSelf) ==
    IF isSelf
    THEN SumSeq([ i \in 1..Len(inputList) |-> assemblyIndices[inputList[i]] ])
    ELSE Len(inputList) * Len(refIndices)

\* line 372: the reference recorded for a row in self mode
RecordedRef(query, ref) == assemblyIndices[query]

\* lines 349-375: the loops over the batch's queries and the references;
\* acc holds outDists, querySeqs, refSeqs, row and whether an exception
\* was raised
RECURSIVE CompareLoop(_, _, _, _)
CompareLoop(inputList, qn, rn, acc) ==
    IF acc.raised \/ qn > Len(inputList) THEN acc
    ELSE IF rn > Len(refIndices) THEN CompareLoop(inputList, qn + 1, 1, acc)
    ELSE LET query == inputList[qn]
             ref == refIndices[rn]
         IN  IF self /\ ref \notin DOMAIN assemblyIndices
             THEN [ acc EXCEPT !.raised = TRUE ]         \* KeyError, line 352
             ELSE IF ~self \/ assemblyIndices[query] > assemblyIndices[ref]
             THEN IF \/ ~AllFloats(RawMatches, query, ref)      \* TypeError, line 357
                     \/ acc.row >= Len(acc.outDists)     \* IndexError, line 368
                     \/ ~self                            \* KeyError, line 374
                  THEN [ acc EXCEPT !.raised = TRUE ]
                  ELSE CompareLoop(inputList, qn, rn + 1,
                           [ outDists |-> [ acc.outDists EXCEPT
                                              ![acc.row + 1] = Fitted(query, ref) ],
                             querySeqs |-> Append(acc.querySeqs, assemblyIndices[query]),
                             refSeqs |-> Append(acc.refSeqs, RecordedRef(query, ref)),
                             row |-> acc.row + 1,
                             raised |-> FALSE ])
             ELSE CompareLoop(inputList, qn, rn + 1, acc)

RunComparisonOf(inputList) ==
    CompareLoop(inputList, 1, 1,
        [ outDists |-> [ i \in 1..NumberDists(inputList, self) |-> ZeroRow ],
          querySeqs |-> << >>, refSeqs |-> << >>, row |-> 0, raised |-> FALSE ])

\* the k-mer lengths a caller may pass, and the sketch sizes mash may report
KmerLengths == << 13, 16, 19, 22 >>
SketchSizes == { 1000, 2000 }

Pending == [ done |-> FALSE ]

InitQuery ==
    /\ call \in { "getSketchSize", "constructDatabase", "queryDatabase" }
    /\ qPc = "called"
    /\ klist \in { SubSeq(KmerLengths, 1, n) : n \in 1..MaxKmers }
    /\ self \in BOOLEAN
    /\ lineOrder \in { "byQuery", "byReference" }
    /\ dbExists \in [ 1..Len(klist) -> BOOLEAN ]
    /\ toolFailed = FALSE
    /\ sketch = 0 /\ oldSketch = 0 /\ kpos = 1
    /\ sketchdb = << >>
    /\ raw = [ i \in 1..Len(klist) |-> Pending ]
    /\ queryList = << >> /\ refList = << >> /\ refIndices = << >>
    /\ querySeqs = << >> /\ refSeqs = << >>
    /\ dists = << >>
    /\ ret = [ returned |-> FALSE ]
    /\ searchOut = << >>

UnchangedSketchSize == UNCHANGED << sketch, oldSketch, sketchdb, kpos >>
UnchangedDistances ==
    UNCHANGED << raw, queryList, refList, refIndices, querySeqs, refSeqs,
                 dists, ret, searchOut >>
UnchangedArguments == UNCHANGED << call, klist, self, lineOrder >>

\* lines 174-202: one iteration of "for k in klist".  mash info prints a data
\* line (with a sketch size) or none, and exits with a code.  Without a data
\* line the loop of line 178 never ends: readline() returns b'' at the end of
\* the output, which is not the sentinel ''
GetSketchSizeStep(dataLine, size, exit) ==
    /\ call = "getSketchSize" /\ qPc = "called"
    /\ kpos <= Len(klist)
    /\ toolFailed' = (toolFailed \/ exit # 0)
    /\ IF ~dataLine
       THEN /\ qPc' = "hung"
            /\ UnchangedSketchSize
       ELSE LET old == IF oldSketch = 0 THEN size ELSE sketch
            IN  /\ oldSketch' = old
                /\ sketch' = size
                /\ IF size # old
                   THEN /\ qPc' = "exited"                   \* sys.exit(1)
                        /\ UNCHANGED << sketchdb, kpos >>
                   ELSE /\ sketchdb' = (klist[kpos] :> size) @@ sketchdb
                        /\ IF exit # 0
                           THEN /\ qPc' = "raised"           \* RuntimeError
                                /\ UNCHANGED kpos
                           ELSE /\ kpos' = kpos + 1
                                /\ UNCHANGED qPc
    /\ UNCHANGED dbExists
    /\ UnchangedArguments /\ UnchangedDistances
    /\ UNCHANGED << splitVars, assignVars >>

GetSketchSize ==
    \E dataLine \in BOOLEAN, size \in SketchSizes, exit \in { 0, 1 } :
        GetSketchSizeStep(dataLine, size, exit)

\* line 204
GetSketchSizeReturn ==
    /\ call = "getSketchSize" /\ qPc = "called"
    /\ kpos > Len(klist)
    /\ qPc' = "returned"
    /\ UNCHANGED << dbExists, toolFailed >>
    /\ UnchangedSketchSize /\ UnchangedArguments /\ UnchangedDistances
    /\ UNCHANGED << splitVars, assignVars >>

\* lines 226-238, in a worker of constructDatabase's pool: mash sketch is run
\* with check=True, so a non-zero exit raises CalledProcessError, which
\* pool.map raises in constructDatabase
RunSketch(i, exit) ==
    /\ call = "constructDatabase" /\ qPc = "called"
    /\ ~dbExists[i]
    /\ toolFailed' = (toolFailed \/ exit # 0)
    /\ IF exit = 0
       THEN /\ dbExists' = [ dbExists EXCEPT ![i] = TRUE ]
            /\ UNCHANGED qPc
       ELSE /\ qPc' = "raised"
            /\ UNCHANGED dbExists
    /\ UnchangedSketchSize /\ UnchangedArguments /\ UnchangedDistances
    /\ UNCHANGED << splitVars, assignVars >>

ConstructDatabase ==
    \E i \in 1..Len(klist), exit \in { 0, 1 } : RunSketch(i, exit)

\* lines 217-218
ConstructDatabaseReturn ==
    /\ call = "constructDatabase" /\ qPc = "called"
    /\ \A i \in 1..Len(klist) : dbExists[i]
    /\ qPc' = "returned"
    /\ UNCHANGED << dbExists, toolFailed >>
    /\ UnchangedSketchSize /\ UnchangedArguments /\ UnchangedDistances
    /\ UNCHANGED << splitVars, assignVars >>

\* lines 386-391: readAssemblyList has returned, the pool of runQuery starts
QueryPool ==
    /\ call = "queryDatabase" /\ qPc = "called"
    /\ pc = "batched"
    /\ qPc' = "runQuery"
    /\ UNCHANGED << dbExists, toolFailed >>
    /\ UnchangedSketchSize /\ UnchangedArguments /\ UnchangedDistances
    /\ UNCHANGED << splitVars, assignVars >>

\* lines 247-285, in a worker of the pool: mash dist prints all its lines and
\* exits 0, or prints some of them and exits non-zero; runQuery reads what
\* was printed and never looks at the exit code
RunQueryWorker(i, exit, printed) ==
    /\ call = "queryDatabase" /\ qPc = "runQuery"
    /\ ~raw[i].done
    /\ LET lines == DistLines(DistRefs, DistQueries, lineOrder)
       IN  /\ printed <= Len(lines)
           /\ exit = 0 => printed = Len(lines)
           /\ raw' = [ raw EXCEPT ![i] =
                         [ done |-> TRUE,
                           raw_k |-> RunQueryLines(<< >>, SubSeq(lines, 1, printed)) ] ]
    /\ toolFailed' = (toolFailed \/ exit # 0)
    /\ UNCHANGED << qPc, dbExists, queryList, refList, refIndices, querySeqs,
                    refSeqs, dists, ret, searchOut >>
    /\ UnchangedSketchSize /\ UnchangedArguments
    /\ UNCHANGED << splitVars, assignVars >>

RunQuery ==
    \E i \in 1..Len(klist), exit \in { 0, 1 },
       printed \in 0..Len(DistLines(DistRefs, DistQueries, lineOrder)) :
        RunQueryWorker(i, exit, printed)

\* lines 398-416: the sequence lists, the reference indices, the second pool
BuildIndices ==
    /\ call = "queryDatabase" /\ qPc = "runQuery"
    /\ \A i \in 1..Len(raw) : raw[i].done
    /\ querySeqs' = << >>
    /\ refSeqs' = << >>
    /\ queryList' = Keys(RawMatches[1])
    /\ refList' = FirstRefList(RawMatches[1], 1)
    /\ refIndices' = refList'
    /\ dists' = [ bi \in 1..Len(assemblyBatches) |-> Pending ]
    /\ qPc' = "runComparison"
    /\ UNCHANGED << dbExists, toolFailed, raw, ret, searchOut >>
    /\ UnchangedSketchSize /\ UnchangedArguments
    /\ UNCHANGED << splitVars, assignVars >>

\* lines 335-377, in a worker of the second pool; an exception in a worker
\* is raised by pool.map in queryDatabase
RunComparisonWorker(bi) ==
    /\ call = "queryDatabase" /\ qPc = "runComparison"
    /\ ~dists[bi].done
    /\ LET res == RunComparisonOf(assemblyBatches[bi])
       IN  IF res.raised
           THEN /\ qPc' = "raised"
                /\ UNCHANGED dists
           ELSE /\ dists' = [ dists EXCEPT ![bi] =
                                [ done |-> TRUE, outDists |-> res.outDists,
                                  querySeqs |-> res.querySeqs,
                                  refSeqs |-> res.refSeqs ] ]
                /\ UNCHANGED qPc
    /\ UNCHANGED << dbExists, toolFailed, raw, queryList, refList, refIndices,
                    querySeqs, refSeqs, ret, searchOut >>
    /\ UnchangedSketchSize /\ UnchangedArguments
    /\ UNCHANGED << splitVars, assignVars >>

RunComparison == \E bi \in 1..Len(dists) : RunComparisonWorker(bi)

\* lines 421-430: the merge of the workers' outputs, and the return
MergeOutputs ==
    /\ call = "queryDatabase" /\ qPc = "runComparison"
    /\ \A bi \in 1..Len(dists) : dists[bi].done
    /\ queryList' = queryList \o [ bi \in 1..Len(dists) |-> dists[bi].querySeqs ]
    /\ refList' = refList \o [ bi \in 1..Len(dists) |-> dists[bi].refSeqs ]
    /\ ret' = [ returned |-> TRUE,
                refSeqs |-> refSeqs,
                querySeqs |-> querySeqs,
                distMat |-> Concat([ bi \in 1..Len(dists) |-> dists[bi].outDists ]),
                queryIndices |-> assemblyIndices,
                refIndices |-> refIndices ]
    /\ qPc' = "returned"
    /\ UNCHANGED << dbExists, toolFailed, raw, refIndices, querySeqs, refSeqs,
                    dists, searchOut >>
    /\ UnchangedSketchSize /\ UnchangedArguments
    /\ UNCHANGED << splitVars, assignVars >>

\* lines 436-444, called with what queryDatabase returned: one row per pair
\* of zip(qlist, rlist)
PrintQueryOutput ==
    /\ call = "queryDatabase" /\ qPc = "returned"
    /\ searchOut' = [ i \in 1..Min(Len(ret.querySeqs), Len(ret.refSeqs)) |->
                        [ query |-> ret.querySeqs[i], ref |-> ret.refSeqs[i],
                          dist |-> ret.distMat[i] ] ]
    /\ qPc' = "printed"
    /\ UNCHANGED << dbExists, toolFailed, raw, queryList, refList, refIndices,
                    querySeqs, refSeqs, dists, ret >>
    /\ UnchangedSketchSize /\ UnchangedArguments
    /\ UNCHANGED << splitVars, assignVars >>

QueryNext ==
    \/ GetSketchSize \/ GetSketchSizeReturn
    \/ ConstructDatabase \/ ConstructDatabaseReturn
    \/ ReadAssemblyList \/ SplitWhile \/ SplitFor \/ SplitLast
    \/ QueryPool \/ RunQuery \/ BuildIndices \/ RunComparison
    \/ MergeOutputs \/ PrintQueryOutput

(***************************************************************************)
(* The specifications.                                                     *)
(***************************************************************************)
IdleSplit ==
    /\ pc = "idle"
    /\ fn = << >>
    /\ threads = 1
    /\ assemblyList = << >>
    /\ assemblyIndices = << >>
    /\ assemblyBatches = << >>
    /\ st = 0 /\ zr = 0 /\ nr = 0 /\ nc = 0 /\ inc = 0 /\ fi = 0
    /\ b = << >>

IdleAssign ==
    /\ links = << >>
    /\ G = [ nodes |-> << >>, edges |-> {} ]
    /\ clusterFile = << >>
    /\ run = 0
    /\ firstRun = [ pc |-> "none" ]
    /\ PassStart

IdleQuery ==
    /\ call = "none"
    /\ qPc = "idle"
    /\ klist = << >>
    /\ self = TRUE
    /\ lineOrder = "none"
    /\ dbExists = << >>
    /\ toolFailed = FALSE
    /\ sketch = 0 /\ oldSketch = 0 /\ kpos = 1
    /\ sketchdb = << >>
    /\ raw = << >>
    /\ queryList = << >> /\ refList = << >> /\ refIndices = << >>
    /\ querySeqs = << >> /\ refSeqs = << >>
    /\ dists = << >>
    /\ ret = [ returned |-> FALSE ]
    /\ searchOut = << >>

\* the batch partitioner on its own
InitBatches == InitSplit(MaxLen, MaxThreads) /\ IdleAssign /\ IdleQuery
SpecSplit == InitBatches /\ [][SplitNext]_vars

\* the cluster assignment pass, run and then run again
InitClusters == InitAssign /\ IdleSplit /\ IdleQuery
SpecAssign == InitClusters /\ [][AssignNext]_vars

\* a call of getSketchSize, of constructDatabase or of queryDatabase
Init ==
    /\ InitQuery
    /\ IF call = "queryDatabase" THEN InitSplit(MaxAssemblies, MaxWorkers)
       ELSE IdleSplit
    /\ IdleAssign
Spec == Init /\ [][QueryNext]_vars

(***************************************************************************)
(* C1: once readAssemblyList has returned, the batches concatenated in     *)
(* batch order are the input list: nothing is missing, nothing is          *)
(* duplicated and the order is the input's.                                *)
(***************************************************************************)
BatchesPartitionInput ==
    pc = "batched" => Concat(assemblyBatches) = fn

\* a run with several workers whose last batch is longer than the nominal
\* chunk size, because it absorbed the remainder
LastBatchAbsorbsRemainder ==
    /\ pc = "batched"
    /\ threads > 1
    /\ Len(assemblyBatches) = threads
    /\ Len(assemblyBatches[Len(assemblyBatches)]) > nc
    /\ nc > 0

(***************************************************************************)
(* What the claims about assignQueriesToClusters speak of, stated on the   *)
(* arguments and the files of the call.                                    *)
(***************************************************************************)
NoDup(s) == \A i, j \in 1..Len(s) : s[i] = s[j] => i = j

\* the taxa of the existing-cluster table, and a taxon's cluster id
InTable(t) == \E r \in Range(clusterFile) : r.taxon = t /\ r.taxon # "Taxon"
TableId(t) == (CHOOSE r \in Range(clusterFile) : r.taxon = t).cluster[1]
MaxTableId ==
    IF \E t \in Refs : InTable(t)
    THEN CHOOSE m \in { TableId(t) : t \in { u \in Refs : InTable(u) } } :
             \A t \in { u \in Refs : InTable(u) } : TableId(t) <= m
    ELSE 0

\* the existing cluster ids the i-th query's links reach
DirectIds(i) == { TableId(l) : l \in { x \in Range(links[i].links) : InTable(x) } }

\* the positions of the other queries of the i-th query's component
OthersInComponent(i) ==
    IF links[i].query \in Range(G.nodes)
    THEN { j \in 1..Len(links) :
             /\ j # i
             /\ links[j].query \in ReachFrom(G, { links[i].query }) }
    ELSE {}

ComponentIds(i) == UNION { DirectIds(j) : j \in OthersInComponent(i) }

\* the rows of the output written so far, the i-th being the i-th query's
Rows == oFile.rows

(***************************************************************************)
(* C3: a query whose links reach existing-cluster references is assigned   *)
(* exactly the distinct cluster ids of those references, each id once: one *)
(* id when they agree, all of them (merge needed) otherwise.               *)
(***************************************************************************)
DirectHitsAssigned ==
    \A i \in 1..Len(Rows) :
        DirectIds(i) # {} =>
            /\ Rows[i].query = links[i].query
            /\ Rows[i].complete
            /\ NoDup(Rows[i].cluster)
            /\ Range(Rows[i].cluster) = DirectIds(i)

\* the scenario of the table {A:1, B:1, C:2}: links to A and B give 1, and
\* links to A and C give 1;2
DirectHitsScenario ==
    \E i, j \in 1..Len(Rows) :
        /\ links[i].links = << "A", "B" >> /\ Rows[i].cluster = << 1 >>
        /\ links[j].links = << "A", "C" >> /\ Rows[j].cluster = << 1, 2 >>

(***************************************************************************)
(* C4: a query without a link to an existing-cluster reference, whose      *)
(* component holds other queries with such links, is assigned the distinct *)
(* existing cluster ids its component's members hit, each id once (stated  *)
(* of the rows that were written in full).                                 *)
(***************************************************************************)
TransitiveHitSetAssigned ==
    \A i \in 1..Len(Rows) :
        (DirectIds(i) = {} /\ ComponentIds(i) # {} /\ Rows[i].complete) =>
            /\ NoDup(Rows[i].cluster)
            /\ Range(Rows[i].cluster) = ComponentIds(i)

(***************************************************************************)
(* C5: every newly minted cluster id, of an isolated query or of a query   *)
(* component without hits, is strictly greater than the largest cluster id *)
(* of the existing-cluster table.                                          *)
(***************************************************************************)
NewIdsAboveExistingMax ==
    \A i \in 1..Len(Rows) :
        (DirectIds(i) = {} /\ ComponentIds(i) = {} /\ Rows[i].complete) =>
            \A k \in 1..Len(Rows[i].cluster) : Rows[i].cluster[k] > MaxTableId

(***************************************************************************)
(* C6: the pass completes for every input, and when it has returned the    *)
(* output holds exactly one complete row per query, in input order.        *)
(***************************************************************************)
EveryQueryGetsItsRow ==
    /\ aPc # "crashed"
    /\ aPc = "done" =>
         /\ Len(Rows) = Len(links)
         /\ \A i \in 1..Len(links) :
              /\ Rows[i].query = links[i].query
              /\ Rows[i].complete
              /\ Rows[i].cluster # << >>

(***************************************************************************)
(* C7: a query that touches no query-query edge and no existing-cluster    *)
(* reference is given the running maxCluster + 1 when it is assigned, the  *)
(* running maximum advances by one, and such queries get ids that grow by  *)
(* exactly one in input order.                                             *)
(***************************************************************************)
TouchesNoEdge(i) == \A e \in G.edges : links[i].query \notin e
NotAVertex(i) == links[i].query \notin Range(G.nodes)

\* as claimed: of the queries that touch no edge of the graph
EdgelessMintStep ==
    (/\ aPc = "loop" /\ qi <= Len(links) /\ qi' = qi + 1
     /\ TouchesNoEdge(qi) /\ DirectIds(qi) = {}) =>
        /\ oFile'.rows[qi].cluster = << maxCluster + 1 >>
        /\ maxCluster' = maxCluster + 1

EdgelessIdsConsecutive ==
    \A i, j \in 1..Len(Rows) :
        (/\ i < j
         /\ TouchesNoEdge(i) /\ DirectIds(i) = {}
         /\ TouchesNoEdge(j) /\ DirectIds(j) = {}
         /\ \A k \in (i + 1)..(j - 1) : ~(TouchesNoEdge(k) /\ DirectIds(k) = {})) =>
            Rows[j].cluster = << Rows[i].cluster[1] + 1 >>

IsolatedMintStep ==
    (/\ aPc = "loop" /\ qi <= Len(links) /\ qi' = qi + 1
     /\ NotAVertex(qi) /\ DirectIds(qi) = {}) =>
        /\ oFile'.rows[qi].cluster = << maxCluster + 1 >>
        /\ maxCluster' = maxCluster + 1

IsolatedIdsConsecutive ==
    \A i, j \in 1..Len(Rows) :
        (/\ i < j
         /\ NotAVertex(i) /\ DirectIds(i) = {}
         /\ NotAVertex(j) /\ DirectIds(j) = {}
         /\ \A k \in (i + 1)..(j - 1) : ~(NotAVertex(k) /\ DirectIds(k) = {})) =>
            Rows[j].cluster = << Rows[i].cluster[1] + 1 >>

RepeatedRunIdentical ==
    (run = 2 /\ aPc \in { "done", "crashed" }) =>
        /\ firstRun.pc = aPc
        /\ firstRun.oFile = oFile
        /\ firstRun.additionalClusters = additionalClusters
        /\ firstRun.existingHits = existingHits

(***************************************************************************)
(* What the claims about queryDatabase speak of.                           *)
(***************************************************************************)
\* runComparison has returned for every batch
AllCompared ==
    /\ call = "queryDatabase"
    /\ qPc \in { "runComparison", "returned", "printed" }
    /\ \A bi \in 1..Len(dists) : dists[bi].done

\* the workers' outputs, in batch order
ComparedQueries == Concat([ bi \in 1..Len(dists) |-> dists[bi].querySeqs ])
ComparedRefs == Concat([ bi \in 1..Len(dists) |-> dists[bi].refSeqs ])
ComparedRows == Concat([ bi \in 1..Len(dists) |-> dists[bi].outDists ])

\* the assembly with a zero-based index
AssemblyAt(index) == assemblyList[index + 1]

(***************************************************************************)
(* C2: in self-comparison mode over N assemblies, with a raw match for     *)
(* every pair at every k, runComparison's rows over all batches are        *)
(* N*(N-1)/2, and each row's recorded (query, reference) has               *)
(* index(reference) < index(query), no unordered pair recorded twice.      *)
(***************************************************************************)
SelfComparisonLowerTriangle ==
    (AllCompared /\ self /\ ~toolFailed) =>
        LET n == Len(assemblyList)
            pair(i) == { ComparedQueries[i], ComparedRefs[i] }
        IN  /\ Len(ComparedRows) = (n * (n - 1)) \div 2
            /\ Len(ComparedQueries) = (n * (n - 1)) \div 2
            /\ Len(ComparedRefs) = Len(ComparedQueries)
            /\ \A i \in 1..Len(ComparedQueries) :
                 ComparedRefs[i] < ComparedQueries[i]
            /\ \A i, j \in 1..Len(ComparedQueries) : pair(i) = pair(j) => i = j

(***************************************************************************)
(* C9: queryDatabase returns a query-id list and a reference-id list with  *)
(* one entry per row of the distance matrix, entry i naming the pair whose *)
(* distances are in row i, and printQueryOutput writes a row per pair       *)
(* (stated of the calls in which every tool exited with 0).                *)
(***************************************************************************)
PerRowMappingTravels ==
    (call = "queryDatabase" /\ qPc \in { "returned", "printed" }
        /\ ~toolFailed) =>
        /\ Len(ret.querySeqs) = Len(ret.distMat)
        /\ Len(ret.refSeqs) = Len(ret.distMat)
        /\ \A i \in 1..Len(ret.distMat) :
             ret.distMat[i] = Fitted(AssemblyAt(ret.querySeqs[i]),
                                     AssemblyAt(ret.refSeqs[i]))
        /\ qPc = "printed" => Len(searchOut) = Len(ret.distMat)

(***************************************************************************)
(* C10: once mash sketch, mash info or mash dist has exited non-zero, the  *)
(* call never goes on to the regression stage and never returns a result   *)
(* (stated of getSketchSize, of constructDatabase, and of queryDatabase on *)
(* two assemblies or more, which have pairs to compare).                   *)
(***************************************************************************)
ToolFailureAborts ==
    (toolFailed /\ (call = "queryDatabase" => Len(assemblyList) >= 2)) =>
        qPc \notin { "runComparison", "returned", "printed" }


\* raw_k[x][y] holds a Jaccard value (a float, and no empty defaultdict)
HoldsJaccard(rawk, x, y) ==
    Has(rawk, x) /\ Has(Get(rawk, x), y) /\ Get(Get(rawk, x), y) = Jaccard

\* the ids that are keys of raw_k or of one of its inner tables
TableIds(rawk) ==
    Range(Keys(rawk))
        \union UNION { Range(Keys(rawk[n].v)) : n \in 1..Len(rawk) }

(***************************************************************************)
(* C11: after runQuery has read the lines that mash dist printed for one   *)
(* k, no self-pair raw_k[a][a] holds a Jaccard value, and of raw_k[a][b]   *)
(* and raw_k[b][a], a # b, one at most holds a Jaccard value, also when    *)
(* the output lists the pair in both orientations (self mode); stated of   *)
(* the calls in which every tool exited with 0.                            *)
(***************************************************************************)
OneOrientationStored ==
    \A i \in 1..Len(raw) :
        (raw[i].done /\ ~toolFailed) =>
            LET rawk == raw[i].raw_k
            IN  \A x \in TableIds(rawk), y \in TableIds(rawk) :
                    /\ ~HoldsJaccard(rawk, x, x)
                    /\ (x # y) =>
                         ~(HoldsJaccard(rawk, x, y) /\ HoldsJaccard(rawk, y, x))

=============================================================================
